---------------------------- MODULE Spec2Model ----------------------------
(***************************************************************************)
(* Model of complete_audit_script.py: the bounded-concurrency audit        *)
(* pipeline (main, process_businesses_batch, process_business), the        *)
(* qualification classifier, the URL normalizer and the checkpoint logic.  *)
(*                                                                         *)
(* Text is modelled as a sequence of one-character strings.  A score is    *)
(* an integer number of tenths (overall_score 8.5 is 85).  Python's None   *)
(* for a URL is the empty sequence (clean_url never returns an empty URL,  *)
(* and the code only tests the value for truthiness).                      *)
(***************************************************************************)
EXTENDS Integers, Sequences, FiniteSets, TLC

(***************************************************************************)
(* Text helpers: str.lower, str.strip, str.startswith, `in`, str.isalpha.  *)
(***************************************************************************)
LowerLetters == <<"a","b","c","d","e","f","g","h","i","j","k","l","m",
                  "n","o","p","q","r","s","t","u","v","w","x","y","z">>

UpperLetters == <<"A","B","C","D","E","F","G","H","I","J","K","L","M",
                  "N","O","P","Q","R","S","T","U","V","W","X","Y","Z">>

Range(s) == { s[i] : i \in DOMAIN s }

ToLower(c) ==
    IF \E i \in DOMAIN UpperLetters : UpperLetters[i] = c
    THEN LowerLetters[CHOOSE i \in DOMAIN UpperLetters : UpperLetters[i] = c]
    ELSE c

LowerStr(s) == [ i \in DOMAIN s |-> ToLower(s[i]) ]

IsAlpha(s) ==
    /\ Len(s) > 0
    /\ \A i \in DOMAIN s : s[i] \in Range(LowerLetters) \cup Range(UpperLetters)

Drop(s, n) == IF n >= Len(s) THEN <<>> ELSE SubSeq(s, n + 1, Len(s))

StartsWith(s, p) == Len(s) >= Len(p) /\ SubSeq(s, 1, Len(p)) = p

Contains(s, p) ==
    \E i \in 0 .. (Len(s) - Len(p)) : SubSeq(s, i + 1, i + Len(p)) = p

Whitespace == {" "}

RECURSIVE LStrip(_)
LStrip(s) == IF s # <<>> /\ s[1] \in Whitespace THEN LStrip(Tail(s)) ELSE s

RECURSIVE RStrip(_)
RStrip(s) ==
    IF s # <<>> /\ s[Len(s)] \in Whitespace
    THEN RStrip(SubSeq(s, 1, Len(s) - 1))
    ELSE s

Strip(s) == LStrip(RStrip(s))

\* The text before the first character of `delims` (all of s when none occurs).
UpTo(s, delims) ==
    IF \E i \in DOMAIN s : s[i] \in delims
    THEN SubSeq(s, 1, (CHOOSE i \in DOMAIN s :
                          /\ s[i] \in delims
                          /\ \A j \in 1 .. (i - 1) : s[j] \notin delims) - 1)
    ELSE s

\* s.split(c)[-1]: the text after the last occurrence of c.
AfterLast(s, c) ==
    IF \E i \in DOMAIN s : s[i] = c
    THEN Drop(s, CHOOSE i \in DOMAIN s :
                    /\ s[i] = c
                    /\ \A j \in (i + 1) .. Len(s) : s[j] # c)
    ELSE s

T_http    == <<"h","t","t","p",":","/","/">>
T_https   == <<"h","t","t","p","s",":","/","/">>
T_www     == <<"w","w","w",".">>
T_mailto  == <<"m","a","i","l","t","o",":">>

NoneUrl == <<>>

Placeholders ==
    { <<"n","/","a">>, <<"n","o","n","e">>, <<"n","u","l","l">>,
      <<"u","n","d","e","f","i","n","e","d">>, <<>> }

\* urlparse(url).netloc for a url that starts with a scheme and "//".
Netloc(url) ==
    LET rest == IF StartsWith(url, T_https) THEN Drop(url, Len(T_https))
                ELSE Drop(url, Len(T_http))
    IN  UpTo(rest, {"/", "?", "#"})

\* urlparse raises ValueError ("Invalid IPv6 URL") on unbalanced brackets.
UrlparseRaises(url) ==
    LET n == Netloc(url)
    IN  ("[" \in Range(n)) # ("]" \in Range(n))

clean_url(url) ==
    IF url = <<>> THEN NoneUrl
    ELSE
    LET u1 == Strip(url) IN
    IF LowerStr(u1) \in Placeholders THEN NoneUrl
    ELSE IF Contains(LowerStr(u1), T_mailto) THEN NoneUrl
    ELSE
    LET u2 == IF StartsWith(LowerStr(u1), T_www) THEN Drop(u1, Len(T_www)) ELSE u1
        u3 == IF StartsWith(LowerStr(u2), T_http) THEN Drop(u2, Len(T_http))
              ELSE IF StartsWith(LowerStr(u2), T_https) THEN Drop(u2, Len(T_https))
              ELSE u2
        u4 == IF StartsWith(u3, T_http) \/ StartsWith(u3, T_https)
              THEN u3
              ELSE T_https \o u3
    IN  IF UrlparseRaises(u4) THEN NoneUrl
        ELSE LET netloc == Netloc(u4)
                 tld    == AfterLast(netloc, ".")
             IN  IF netloc = <<>> \/ "." \notin Range(netloc) THEN NoneUrl
                 ELSE IF Len(tld) < 2 \/ ~IsAlpha(tld) THEN NoneUrl
                 ELSE u4

\* SOCIAL_MEDIA_PATTERNS: the literal text between the two ".*" of each pattern.
SOCIAL_MEDIA_PATTERNS ==
    { <<"l","i","n","k","e","d","i","n",".","c","o","m">>,
      <<"f","a","c","e","b","o","o","k",".","c","o","m">>,
      <<"t","w","i","t","t","e","r",".","c","o","m">>,
      <<"x",".","c","o","m">>,
      <<"i","n","s","t","a","g","r","a","m",".","c","o","m">>,
      <<"y","o","u","t","u","b","e",".","c","o","m">>,
      <<"t","i","k","t","o","k",".","c","o","m">>,
      <<"p","i","n","t","e","r","e","s","t",".","c","o","m">>,
      <<"s","n","a","p","c","h","a","t",".","c","o","m">>,
      <<"t","e","l","e","g","r","a","m",".","m","e">>,
      <<"w","h","a","t","s","a","p","p",".","c","o","m">>,
      <<"y","e","l","p",".","c","o","m">>,
      <<"f","o","u","r","s","q","u","a","r","e",".","c","o","m">>,
      <<"m","a","p","s",".","g","o","o","g","l","e",".","c","o","m">>,
      <<"g","o","o",".","g","l","/","m","a","p","s">>,
      <<"n","e","x","t","d","o","o","r",".","c","o","m">>,
      <<"d","i","s","c","o","r","d",".","c","o","m">>,
      <<"r","e","d","d","i","t",".","c","o","m">>
    }

\* The function is called by process_business but defined nowhere in the
\* script; modelled from the Domain Classifier section: a case-insensitive
\* match of the address against the pattern table.
is_social_media_url(url) ==
    \E p \in SOCIAL_MEDIA_PATTERNS : Contains(LowerStr(url), p)


(***************************************************************************)
(* Quality Scorer: the report builders and the weighted composite score.   *)
(***************************************************************************)
\* Mutant: the mobile and the design weight are swapped.
weights_swapped ==
    [ mobile |-> 20, design |-> 25, security |-> 15, performance |-> 15,
      content |-> 15, seo |-> 10 ]

\* The weights of calculate_overall_score, in hundredths.
weights ==
    [ mobile |-> 25, design |-> 20, security |-> 15, performance |-> 15,
      content |-> 15, seo |-> 10 ]

\* sum(s[key] * w[key] for key in s) over the keys of s.
RECURSIVE SumOver(_, _, _)
SumOver(keys, s, w) ==
    IF keys = {} THEN 0
    ELSE LET k == CHOOSE x \in keys : TRUE
         IN  s[k] * w[k] + SumOver(keys \ {k}, s, w)

WeightedSum(s, w) == SumOver(DOMAIN s, s, w)

\* round(sum(scores[key] * weights[key]), 1), in tenths.  h is the exact sum in
\* hundredths (weights 0.25/0.20/0.15/0.15/0.15/0.10).  When h ends in 5 the
\* float sum lies next to a rounding boundary and Python rounds it either
\* way, depending on the accumulated binary error: tie_up says which.
calculate_overall_score(scores, tie_up) ==
    LET h == WeightedSum(scores, weights)
    IN  IF h % 10 = 5
        THEN (IF tie_up THEN (h \div 10) + 1 ELSE h \div 10)
        ELSE (h + 5) \div 10

create_failed_analysis(response) ==
    [ accessible |-> FALSE, mobile_responsive |-> FALSE, mobile_score |-> 0,
      modern_design |-> FALSE, design_score |-> 0, has_ssl |-> FALSE,
      security_score |-> 0, performance_score |-> 0, content_score |-> 0,
      seo_score |-> 0, overall_score |-> 0,
      error |-> IF response = "None" THEN "HTTP No response" ELSE "HTTP status",
      detailed_issues |-> "Website not accessible" ]

create_timeout_analysis ==
    [ accessible |-> FALSE, mobile_responsive |-> FALSE, mobile_score |-> 0,
      modern_design |-> FALSE, design_score |-> 0, has_ssl |-> FALSE,
      security_score |-> 0, performance_score |-> 0, content_score |-> 0,
      seo_score |-> 0, overall_score |-> 0,
      error |-> "Timeout", detailed_issues |-> "Website loading timeout" ]

\* Mutant: the error report carries the neutral scores the probes fall back to.
create_error_analysis_neutral(error) ==
    [ accessible |-> FALSE, mobile_responsive |-> FALSE, mobile_score |-> 5,
      modern_design |-> FALSE, design_score |-> 5, has_ssl |-> FALSE,
      security_score |-> 5, performance_score |-> 5, content_score |-> 5,
      seo_score |-> 5, overall_score |-> 50,
      error |-> error, detailed_issues |-> "Analysis error" ]

create_error_analysis(error) ==
    [ accessible |-> FALSE, mobile_responsive |-> FALSE, mobile_score |-> 0,
      modern_design |-> FALSE, design_score |-> 0, has_ssl |-> FALSE,
      security_score |-> 0, performance_score |-> 0, content_score |-> 0,
      seo_score |-> 0, overall_score |-> 0,
      error |-> error, detailed_issues |-> "Analysis error" ]

Max(a, b) == IF a > b THEN a ELSE b

Min(a, b) == IF a < b THEN a ELSE b

BoolInt(b) == IF b THEN 1 ELSE 0

\* What page.evaluate reports for one viewport.
ViewportAnalyses ==
    [ hasHorizontalScroll : BOOLEAN, hasViewportMeta : BOOLEAN,
      hasMediaQueries : BOOLEAN ]

viewport_score(viewport_analysis, name) ==
    10 - (IF viewport_analysis.hasHorizontalScroll THEN 5 ELSE 0)
       - (IF ~viewport_analysis.hasViewportMeta THEN 2 ELSE 0)
       - (IF ~viewport_analysis.hasMediaQueries /\ name # "Desktop" THEN 3 ELSE 0)

\* test_mobile_responsiveness: v is the three viewport analyses.  avg_score
\* is total / 3: avg_score >= 7 is total >= 21, int(avg_score) is total \div 3.
test_mobile_responsiveness(v) ==
    LET total == viewport_score(v.iPhone, "iPhone")
                 + viewport_score(v.Tablet, "Tablet")
                 + viewport_score(v.Desktop, "Desktop")
    IN  [ is_responsive |-> total >= 21, score |-> Max(0, total \div 3) ]

\* analyze_design_modernity: d counts the modern CSS features (0..7) and the
\* design patterns (0..5) found, says whether custom or web fonts are used
\* and how old document.lastModified is.
DesignAnalyses ==
    [ modern_css_count : 0 .. 7, pattern_count : 0 .. 5, fonts : BOOLEAN,
      age : {"recent", "older", "very_old"} ]

analyze_design_modernity(d) ==
    LET score == Min(4, d.modern_css_count) + Min(3, d.pattern_count)
                 + (IF d.fonts THEN 2 ELSE 0)
                 + (IF d.age = "recent" THEN 1
                    ELSE IF d.age = "very_old" THEN -2 ELSE 0)
    IN  [ is_modern |-> score >= 6, score |-> Max(0, Min(10, score)) ]

\* analyze_performance: load_time is "fast", "moderate" (> 3 s) or "slow"
\* (> 5 s); raises when the reload or the evaluation fails.
PerformanceAnalyses ==
    [ raises : BOOLEAN, load_time : {"fast", "moderate", "slow"},
      many_images : BOOLEAN, many_scripts : BOOLEAN ]

analyze_performance(p) ==
    IF p.raises THEN [ score |-> 5 ]
    ELSE [ score |-> Max(0, 10 - (IF p.load_time = "slow" THEN 4
                                  ELSE IF p.load_time = "moderate" THEN 2 ELSE 0)
                               - (IF p.many_images THEN 2 ELSE 0)
                               - (IF p.many_scripts THEN 1 ELSE 0)) ]

\* analyze_content_quality.
ContentAnalyses ==
    [ raises : BOOLEAN, long_text : BOOLEAN, hasMainHeading : BOOLEAN,
      three_headings : BOOLEAN, hasContactInfo : BOOLEAN, hasAboutInfo : BOOLEAN,
      images_with_alt : BOOLEAN, has_form : BOOLEAN ]

analyze_content_quality(c) ==
    IF c.raises THEN [ score |-> 5 ]
    ELSE [ score |-> Min(10, 2 * BoolInt(c.long_text) + BoolInt(c.hasMainHeading)
                             + BoolInt(c.three_headings)
                             + 2 * BoolInt(c.hasContactInfo)
                             + BoolInt(c.hasAboutInfo)
                             + BoolInt(c.images_with_alt) + BoolInt(c.has_form)) ]

\* analyze_seo_basics: title and description are "missing", "present" or
\* "optimal" (length in the recommended range).
SeoAnalyses ==
    [ raises : BOOLEAN, title : {"missing", "present", "optimal"},
      description : {"missing", "present", "optimal"},
      one_h1 : BOOLEAN, og_tags : BOOLEAN ]

analyze_seo_basics(a) ==
    LET tag(t) == IF t = "optimal" THEN 2 ELSE IF t = "present" THEN 1 ELSE 0
    IN  IF a.raises THEN [ score |-> 3 ]
        ELSE [ score |-> Min(10, tag(a.title) + tag(a.description)
                                 + BoolInt(a.one_h1) + BoolInt(a.og_tags)) ]

\* analyze_security: has_ssl is read off the address; mixed content costs 3.
analyze_security(url, mixed_content) ==
    LET has_ssl == StartsWith(url, T_https)
        score   == (IF has_ssl THEN 10 ELSE 0) - (IF mixed_content THEN 3 ELSE 0)
    IN  [ has_ssl |-> has_ssl, score |-> IF score < 0 THEN 0 ELSE score ]

\* check_website_quality(page, url).  site is what the visited site does:
\*   nav: "ok" | "none" (goto returns no response) | "http_error" (status
\*        >= 400) | "timeout" | "raise" (any other exception in the try block)
\*   and, for nav = "ok", what the dimension probes measure.
check_website_quality(site, url) ==
    IF site.nav = "none" THEN create_failed_analysis("None")
    ELSE IF site.nav = "http_error" THEN create_failed_analysis("response")
    ELSE IF site.nav = "timeout" THEN create_timeout_analysis
    ELSE IF site.nav = "raise" THEN create_error_analysis("exception")
    ELSE
    LET security_analysis == analyze_security(url, site.mixed_content) IN
    [ accessible |-> TRUE,
      mobile_responsive |-> site.is_responsive,
      mobile_score |-> site.mobile,
      modern_design |-> site.design >= 6,
      design_score |-> site.design,
      has_ssl |-> security_analysis.has_ssl,
      security_score |-> security_analysis.score,
      performance_score |-> site.performance,
      content_score |-> site.content,
      seo_score |-> site.seo,
      overall_score |-> calculate_overall_score(
          [ mobile |-> site.mobile, design |-> site.design,
            security |-> security_analysis.score,
            performance |-> site.performance, content |-> site.content,
            seo |-> site.seo ], site.tie_up),
      error |-> "None",
      detailed_issues |-> "compiled" ]

(***************************************************************************)
(* Presence Verifier.  place is what the place-search surface shows:       *)
(*   raises: navigation or selector wait fails; result_count: number of    *)
(*   result elements; is_closed: a closure phrase is in the page text;     *)
(*   has_active: an active-business cue is in the page text.               *)
(***************************************************************************)
\* Mutant: appears_active looks at the active cues only.
search_google_maps_ignores_closed(place) ==
    IF place.raises
    THEN [ found |-> FALSE, appears_active |-> FALSE, confidence |-> "error" ]
    ELSE IF place.result_count = 0
    THEN [ found |-> FALSE, appears_active |-> FALSE, confidence |-> "none" ]
    ELSE [ found |-> TRUE,
           appears_active |-> place.has_active,
           confidence |-> IF place.result_count = 1 /\ place.has_active THEN "high"
                          ELSE IF place.result_count <= 3 /\ place.has_active
                               THEN "medium"
                               ELSE "low" ]

\* Mutant: a found business is active unless a closure phrase is present.
search_google_maps_active_unless_closed(place) ==
    IF place.raises
    THEN [ found |-> FALSE, appears_active |-> FALSE, confidence |-> "error" ]
    ELSE IF place.result_count = 0
    THEN [ found |-> FALSE, appears_active |-> FALSE, confidence |-> "none" ]
    ELSE [ found |-> TRUE,
           appears_active |-> ~place.is_closed,
           confidence |-> IF place.result_count = 1 /\ place.has_active THEN "high"
                          ELSE IF place.result_count <= 3 /\ place.has_active
                               THEN "medium"
                               ELSE "low" ]

search_google_maps(place) ==
    IF place.raises
    THEN [ found |-> FALSE, appears_active |-> FALSE, confidence |-> "error" ]
    ELSE IF place.result_count = 0
    THEN [ found |-> FALSE, appears_active |-> FALSE, confidence |-> "none" ]
    ELSE [ found |-> TRUE,
           appears_active |-> ~place.is_closed /\ place.has_active,
           confidence |-> IF place.result_count = 1 /\ place.has_active THEN "high"
                          ELSE IF place.result_count <= 3 /\ place.has_active
                               THEN "medium"
                               ELSE "low" ]

(***************************************************************************)
(* Qualification Classifier.  Returns [result, status]; result is          *)
(* NoneResult for Python's None.  business_data is the input record; now   *)
(* is the clock reading datetime.now() returns.                            *)
(***************************************************************************)
NoneResult == [ none |-> TRUE ]

ScorePriority(overall_score) ==
    IF overall_score <= 40 THEN "HIGH"
    ELSE IF overall_score <= 60 THEN "MEDIUM"
    ELSE IF overall_score <= 75 THEN "LOW"
    ELSE "VERY_LOW"

ScoreReason(overall_score) ==
    IF overall_score <= 40 THEN "Multiple critical website issues"
    ELSE IF overall_score <= 60 THEN "Several website improvements needed"
    ELSE IF overall_score <= 75 THEN "Minor website improvements recommended"
    ELSE "Website in good condition, minimal improvements needed"

\* Mutant: a missing certificate does not escalate.
AdjustPriority_no_ssl(base, website_analysis) ==
    LET p2 == IF ~website_analysis.mobile_responsive /\ base # "HIGH"
              THEN "MEDIUM" ELSE base
        p3 == IF website_analysis.mobile_score <= 3 THEN "HIGH" ELSE p2
    IN  p3

\* Mutant: a site that is not responsive is set to MEDIUM whatever it was.
AdjustPriority_unguarded_mobile(base, website_analysis) ==
    LET p1 == IF ~website_analysis.has_ssl THEN "HIGH" ELSE base
        p2 == IF ~website_analysis.mobile_responsive THEN "MEDIUM" ELSE p1
        p3 == IF website_analysis.mobile_score <= 3 THEN "HIGH" ELSE p2
    IN  p3

\* The three adjustments of lines 816-827, applied in the code's order.
AdjustPriority(base, website_analysis) ==
    LET p1 == IF ~website_analysis.has_ssl THEN "HIGH" ELSE base
        p2 == IF ~website_analysis.mobile_responsive /\ p1 # "HIGH"
              THEN "MEDIUM" ELSE p1
        p3 == IF website_analysis.mobile_score <= 3 THEN "HIGH" ELSE p2
    IN  p3

CriticalIssues(website_analysis) ==
    (IF ~website_analysis.has_ssl THEN <<"No SSL certificate">> ELSE <<>>)
    \o (IF ~website_analysis.mobile_responsive
        THEN <<"Not mobile responsive">> ELSE <<>>)
    \o (IF website_analysis.mobile_score <= 3
        THEN <<"Poor mobile experience">> ELSE <<>>)

\* Mutant: the qualify test uses the LOW threshold 7.5.
Qualifies_low_threshold(priority, overall_score) ==
    priority \in {"HIGH", "MEDIUM"} \/ overall_score <= 75

\* Mutant: the qualify test uses the threshold 8.
Qualifies_high_threshold(priority, overall_score) ==
    priority \in {"HIGH", "MEDIUM"} \/ overall_score <= 80

\* if priority in ['HIGH', 'MEDIUM'] or overall_score <= 7
Qualifies(priority, overall_score) ==
    priority \in {"HIGH", "MEDIUM"} \/ overall_score <= 70

determine_qualification(website_analysis, maps_result, business_data, now) ==
    IF ~website_analysis.accessible /\ ~maps_result.found
    THEN [ result |-> NoneResult, status |-> "not_accessible" ]
    ELSE IF maps_result.found /\ ~maps_result.appears_active
    THEN [ result |-> [ business |-> business_data, status |-> "closed",
                        reason |-> "Appears closed on Google Maps" ],
           status |-> "closed" ]
    ELSE IF ~website_analysis.accessible /\ maps_result.found
            /\ maps_result.appears_active
    THEN [ result |-> [ business |-> business_data, overall_score |-> 0,
                        priority |-> "HIGH", status |-> "needs_website",
                        qualification_reason |->
                            "Active business without functional website",
                        detailed_issues |-> "No functional website found" ],
           status |-> "high_priority" ]
    ELSE
    LET overall_score == website_analysis.overall_score
        priority == AdjustPriority(ScorePriority(overall_score), website_analysis)
        reason   == ScoreReason(overall_score)
    IN  IF Qualifies(priority, overall_score)
        THEN [ result |-> [ business |-> business_data,
                            website_cleaned |-> clean_url(business_data.website),
                            overall_score |-> overall_score,
                            mobile_score |-> website_analysis.mobile_score,
                            website_accessible |-> website_analysis.accessible,
                            mobile_responsive |-> website_analysis.mobile_responsive,
                            has_ssl |-> website_analysis.has_ssl,
                            google_maps_found |-> maps_result.found,
                            appears_active |-> maps_result.appears_active,
                            priority |-> priority,
                            qualification_reason |-> reason,
                            critical_issues |-> CriticalIssues(website_analysis),
                            status |-> "qualified",
                            analysis_date |-> now ],
               status |-> "qualified" ]
        ELSE [ result |-> [ business |-> business_data,
                            overall_score |-> overall_score,
                            priority |-> priority, status |-> "low_priority",
                            qualification_reason |-> reason ],
               status |-> "low_priority" ]


(***************************************************************************)
(* Configuration and bounds.                                               *)
(***************************************************************************)
CONCURRENT_PAGES_PER_BROWSER == 2

\* "Save progress every 3 batches": batch_num % 3 == 0.
CHECKPOINT_EVERY == 3

\* BATCH_SIZE is 30 in the script; the model runs with batch size 1 (many
\* batches, no contention) and with MaxBatchSize (contention for the slots).
MaxBatchSize == 3

\* The largest number of input rows.
MaxRows == 3

\* The largest number of pieces of a raw website string.
MaxTokens == 3

(***************************************************************************)
(* Input records and what the outside world answers for each of them.      *)
(***************************************************************************)
N_acme    == <<"A","c","m","e">>
N_nan     == <<"n","a","n">>
W_plain   == <<"a","c","m","e",".","c","o">>
W_social  == <<"x",".","c","o","m","/","a","c","m","e">>

PlaceActive  == [ raises |-> FALSE, result_count |-> 1, is_closed |-> FALSE,
                  has_active |-> TRUE ]
PlaceClosed  == [ raises |-> FALSE, result_count |-> 1, is_closed |-> TRUE,
                  has_active |-> TRUE ]
PlaceMissing == [ raises |-> FALSE, result_count |-> 0, is_closed |-> FALSE,
                  has_active |-> FALSE ]

SiteGood == [ nav |-> "ok", mixed_content |-> FALSE, is_responsive |-> TRUE,
              mobile |-> 9, design |-> 8, performance |-> 8, content |-> 8,
              seo |-> 7, tie_up |-> FALSE ]
SitePoor == [ nav |-> "ok", mixed_content |-> TRUE, is_responsive |-> FALSE,
              mobile |-> 5, design |-> 3, performance |-> 6, content |-> 4,
              seo |-> 2, tie_up |-> FALSE ]
SiteDown == [ nav |-> "http_error", mixed_content |-> FALSE,
              is_responsive |-> FALSE, mobile |-> 0, design |-> 0,
              performance |-> 0, content |-> 0, seo |-> 0, tie_up |-> FALSE ]

\* A website column whose normalized form keeps the plain-http scheme: only
\* one leading scheme is removed and the rest already starts with one.
W_http    == <<"h","t","t","p",":","/","/","h","t","t","p",":","/","/",
               "a","c","m","e",".","c","o">>

\* The search raises (navigation or selector timeout).
PlaceRaises  == [ raises |-> TRUE, result_count |-> 0, is_closed |-> FALSE,
                  has_active |-> FALSE ]
\* A result whose page text has neither a closure phrase nor an active cue.
PlaceNoCue   == [ raises |-> FALSE, result_count |-> 1, is_closed |-> FALSE,
                  has_active |-> FALSE ]
\* Several results, a closure phrase and no active cue.
PlaceClosedMany == [ raises |-> FALSE, result_count |-> 4, is_closed |-> TRUE,
                     has_active |-> FALSE ]

SiteTimeout == [SiteDown EXCEPT !.nav = "timeout"]
SiteRaise   == [SiteDown EXCEPT !.nav = "raise"]

\* A scenario: one input row (name, website columns) and the world's answers:
\* place (the place-search page), site (the website), new_page_fails
\* (context.new_page() raises, e.g. the browser has crashed).
Scenario(name, website, place, site, new_page_fails) ==
    [ name |-> name, website |-> website, place |-> place, site |-> site,
      new_page_fails |-> new_page_fails ]

\* The scenarios of the multi-batch runs: a rejected record and one record for
\* each of the closed, low-priority and qualified buckets.
RunScenarios ==
    { Scenario(N_nan,  <<>>,    PlaceMissing, SiteDown, FALSE),  \* no_name
      Scenario(N_acme, W_plain, PlaceClosed,  SiteGood, FALSE),  \* closed
      Scenario(N_acme, W_plain, PlaceActive,  SiteGood, FALSE),  \* low_priority
      Scenario(N_acme, W_plain, PlaceActive,  SitePoor, FALSE) } \* qualified

\* The scenarios of the contended batch: a task that fails before it has a
\* page, one that is rejected, one without a website, and one that runs the
\* whole pipeline.
ContendedScenarios ==
    { Scenario(N_acme, W_plain, PlaceActive,  SitePoor, TRUE),   \* error
      Scenario(N_nan,  <<>>,    PlaceMissing, SiteDown, FALSE),  \* no_name
      Scenario(N_acme, <<>>,    PlaceActive,  SiteDown, FALSE),  \* high_priority
      Scenario(N_acme, W_plain, PlaceActive,  SitePoor, FALSE) } \* qualified

\* The scenarios of a run over a single record: every combination of name,
\* website column, place-search page, website behaviour and tab creation.
RecordScenarios ==
    { Scenario(n, w, p, s, f) :
        n \in {N_acme, N_nan},
        w \in {<<>>, W_plain, W_social, W_http},
        p \in {PlaceActive, PlaceClosed, PlaceMissing, PlaceRaises, PlaceNoCue,
               PlaceClosedMany},
        s \in {SiteGood, SitePoor, SiteDown, SiteTimeout, SiteRaise},
        f \in BOOLEAN }

(***************************************************************************)
(* State.                                                                  *)
(***************************************************************************)
VARIABLES
    batch_size,       \* BATCH_SIZE of this run
    businesses,       \* df.to_dict('records'): row -> [row, name, website]
    world,            \* row -> [place, site, new_page_fails]
    main_pc,          \* where main is
    batch_num,        \* main's batch_num (0 before the first batch)
    batch_exc,        \* the exception main's batch handler is handling
    browsers,         \* the batches whose browser process is alive
    clock,            \* datetime.now()
    semaphore,        \* the value of asyncio.Semaphore
    tasks,            \* row -> [pc, page, cleaned_website, maps_result, result, status]
    done_queue,       \* as_completed: finished tasks not yet drained, in order
    results, closed, failed, low_priority,          \* the batch's buckets
    all_results, all_closed, all_failed, all_low_priority,
    progress_saves,   \* the calls of save_progress, in order
    final_output,     \* the files written at run end
    call_args,        \* the arguments of a function called on its own
    call_rets         \* what its calls returned, in order

vars == << batch_size, businesses, world, main_pc, batch_num, batch_exc,
           browsers, clock, semaphore, tasks, done_queue,
           results, closed, failed, low_priority,
           all_results, all_closed, all_failed, all_low_priority,
           progress_saves, final_output, call_args, call_rets >>

Rows == DOMAIN businesses

\* businesses[i:i + BATCH_SIZE] for batch number b (1-based), as row numbers.
BatchRows(b) ==
    { r \in Rows : (b - 1) * batch_size < r /\ r <= b * batch_size }

\* total_batches = (len(businesses) + BATCH_SIZE - 1) // BATCH_SIZE
total_batches == (Len(businesses) + batch_size - 1) \div batch_size

NoMaps == [ found |-> FALSE, appears_active |-> FALSE, confidence |-> "unset" ]

NoTask == [ pc |-> "none", page |-> "none", cleaned_website |-> NoneUrl,
            maps_result |-> NoMaps, result |-> NoneResult, status |-> "" ]

NoOutput == [ written |-> FALSE, qualified |-> <<>>, low_priority |-> <<>>,
              closed |-> <<>>, failed |-> <<>> ]

\* No function is being called on its own.
NoCall == [ fn |-> "none" ]

\* The state before the batch loop of main, for a batch size of `sizes` and
\* an input file that is one of `inputs` (sequences of scenarios).
InitRows(sizes, inputs) ==
    /\ batch_size \in sizes
    /\ \E sc \in inputs :
            /\ businesses = [ r \in DOMAIN sc |->
                                [ row |-> r, name |-> sc[r].name,
                                  website |-> sc[r].website ] ]
            /\ world = [ r \in DOMAIN sc |->
                           [ place |-> sc[r].place, site |-> sc[r].site,
                             new_page_fails |-> sc[r].new_page_fails ] ]
            /\ tasks = [ r \in DOMAIN sc |-> NoTask ]
    /\ main_pc = "loop"
    /\ batch_num = 0
    /\ batch_exc = "none"
    /\ browsers = {}
    /\ clock = 0
    /\ semaphore = 0
    /\ done_queue = <<>>
    /\ results = <<>> /\ closed = <<>> /\ failed = <<>> /\ low_priority = <<>>
    /\ all_results = <<>> /\ all_closed = <<>> /\ all_failed = <<>>
    /\ all_low_priority = <<>>
    /\ progress_saves = <<>>
    /\ final_output = NoOutput
    /\ call_args = NoCall
    /\ call_rets = <<>>

\* Input files of 1 to maxrows rows, each row one of `scenarios`.
InitWith(sizes, maxrows, scenarios) ==
    InitRows(sizes, UNION { [1 .. n -> scenarios] : n \in 1 .. maxrows })

\* A run over up to MaxRows rows: in batches of one row over every scenario,
\* or in batches of MaxBatchSize rows that contend for the slots.
Init ==
    \/ InitWith({1}, MaxRows, RunScenarios)
    \/ InitWith({MaxBatchSize}, MaxRows, ContendedScenarios)


(***************************************************************************)
(* process_with_semaphore / process_business: one task per business of the *)
(* batch.  A task moves between the awaits of the code:                    *)
(*   waiting   at "async with semaphore"                                   *)
(*   new_page  at "await context.new_page()"                               *)
(*   maps      at "await search_google_maps(...)"                          *)
(*   quality   at "await check_website_quality(...)"                       *)
(*   closing   at "await page.close()" in the finally block                *)
(*   sleeping  at "await asyncio.sleep(...)"                               *)
(*   done      returned, queued by as_completed                            *)
(*   drained   its result has been bucketed by the completion loop         *)
(*   cancelled the run was interrupted before the task returned            *)
(***************************************************************************)
RunningPcs == {"new_page", "maps", "quality", "closing", "sleeping"}

Waiting == { r \in Rows : tasks[r].pc = "waiting" }

\* Mutant: the slot is taken without waiting for the semaphore.
SemaphoreFree_unguarded == TRUE

\* asyncio.Semaphore wakes its waiters first come, first served.
SemaphoreFree == semaphore > 0

\* "async with semaphore": acquire a slot, call process_business, which
\* suspends at context.new_page().
AcquireSlot(r) ==
    /\ main_pc = "draining"
    /\ tasks[r].pc = "waiting"
    /\ \A q \in Waiting : r <= q
    /\ SemaphoreFree
    /\ semaphore' = semaphore - 1
    /\ tasks' = [tasks EXCEPT ![r].pc = "new_page"]
    /\ UNCHANGED << call_args, call_rets, batch_size, businesses, world, main_pc, batch_num, batch_exc,
                    browsers, clock, done_queue, results, closed, failed,
                    low_priority, all_results, all_closed, all_failed,
                    all_low_priority, progress_saves, final_output >>

NoName(business_name) ==
    business_name = <<>>
    \/ LowerStr(business_name) \in { N_nan, <<"n","o","n","e">>, <<"n","/","a">> }

\* Mutant: process_business returns without its finally block.
Leave_skips_close(t, result, status) ==
    [ t EXCEPT !.pc = "sleeping", !.result = result, !.status = status,
               !.maps_result = NoMaps, !.cleaned_website = NoneUrl ]

\* The state of a task that leaves the try block of process_business with
\* (result, status): with a page it awaits page.close() in the finally block,
\* without one process_business returns and the task sleeps.
Leave(t, result, status) ==
    [ t EXCEPT !.pc = IF t.page = "open" THEN "closing" ELSE "sleeping",
               !.result = result, !.status = status,
               !.maps_result = NoMaps, !.cleaned_website = NoneUrl ]

\* Mutant: the record is classified without the presence result.
Classify_without_maps(t, website_analysis, maps_result, business_data) ==
    LET q == determine_qualification(website_analysis, NoMaps,
                                     business_data, clock)
    IN  Leave(t, q.result, q.status)

Classify(t, website_analysis, maps_result, business_data) ==
    LET q == determine_qualification(website_analysis, maps_result,
                                     business_data, clock)
    IN  Leave(t, q.result, q.status)

\* context.new_page() returns or raises; then the name and website checks run
\* up to the next await.
NewPage(r) ==
    /\ tasks[r].pc = "new_page"
    /\ main_pc = "draining"
    /\ LET business_name   == Strip(businesses[r].name)
           website         == Strip(businesses[r].website)
           cleaned_website == clean_url(website)
           opened          == [tasks[r] EXCEPT !.page = "open"]
       IN  tasks' = [tasks EXCEPT ![r] =
             IF world[r].new_page_fails
             THEN Leave(tasks[r], NoneResult, "error: new_page")
             ELSE IF NoName(business_name)
             THEN Leave(opened, NoneResult, "no_name")
             ELSE IF cleaned_website # NoneUrl /\ is_social_media_url(cleaned_website)
             THEN Leave(opened, NoneResult, "social_media")
             ELSE [opened EXCEPT !.pc = "maps",
                                 !.cleaned_website = cleaned_website] ]
    /\ UNCHANGED << call_args, call_rets, batch_size, businesses, world, main_pc, batch_num, batch_exc,
                    browsers, clock, semaphore, done_queue, results, closed,
                    failed, low_priority, all_results, all_closed, all_failed,
                    all_low_priority, progress_saves, final_output >>

\* search_google_maps returns; without a cleaned website the inaccessible
\* report is used and the record is classified at once.
MapsDone(r) ==
    /\ tasks[r].pc = "maps"
    /\ main_pc = "draining"
    /\ LET maps_result == search_google_maps(world[r].place)
       IN  tasks' = [tasks EXCEPT ![r] =
             IF tasks[r].cleaned_website # NoneUrl
             THEN [tasks[r] EXCEPT !.pc = "quality", !.maps_result = maps_result]
             ELSE Classify(tasks[r], create_failed_analysis("None"),
                           maps_result, businesses[r]) ]
    /\ UNCHANGED << call_args, call_rets, batch_size, businesses, world, main_pc, batch_num, batch_exc,
                    browsers, clock, semaphore, done_queue, results, closed,
                    failed, low_priority, all_results, all_closed, all_failed,
                    all_low_priority, progress_saves, final_output >>

\* check_website_quality returns; determine_qualification classifies.
QualityDone(r) ==
    /\ tasks[r].pc = "quality"
    /\ main_pc = "draining"
    /\ LET website_analysis ==
               check_website_quality(world[r].site, tasks[r].cleaned_website)
       IN  tasks' = [tasks EXCEPT ![r] =
             Classify(tasks[r], website_analysis, tasks[r].maps_result,
                      businesses[r]) ]
    /\ UNCHANGED << call_args, call_rets, batch_size, businesses, world, main_pc, batch_num, batch_exc,
                    browsers, clock, semaphore, done_queue, results, closed,
                    failed, low_priority, all_results, all_closed, all_failed,
                    all_low_priority, progress_saves, final_output >>

\* finally: await page.close(); process_business returns and the task sleeps.
\* (A close that raises is swallowed by the bare except; playwright raises
\* there when the target is already gone, so the tab is not open either way.)
ClosePage(r) ==
    /\ tasks[r].pc = "closing"
    /\ main_pc = "draining"
    /\ tasks' = [tasks EXCEPT ![r].pc = "sleeping", ![r].page = "closed"]
    /\ UNCHANGED << call_args, call_rets, batch_size, businesses, world, main_pc, batch_num, batch_exc,
                    browsers, clock, semaphore, done_queue, results, closed,
                    failed, low_priority, all_results, all_closed, all_failed,
                    all_low_priority, progress_saves, final_output >>

\* Mutant: leaving "async with semaphore" does not give the slot back.
release_lost(value) == value

\* Semaphore.release(), called when "async with semaphore" is left, by
\* return or by exception.
release(value) == value + 1

\* asyncio.sleep is over: the task returns (result, status), which leaves
\* "async with semaphore" and releases the slot; as_completed queues it.
ReleaseSlot(r) ==
    /\ tasks[r].pc = "sleeping"
    /\ main_pc = "draining"
    /\ tasks' = [tasks EXCEPT ![r].pc = "done"]
    /\ semaphore' = release(semaphore)
    /\ done_queue' = Append(done_queue, r)
    /\ UNCHANGED << call_args, call_rets, batch_size, businesses, world, main_pc, batch_num, batch_exc,
                    browsers, clock, results, closed, failed, low_priority,
                    all_results, all_closed, all_failed, all_low_priority,
                    progress_saves, final_output >>


(***************************************************************************)
(* save_progress and the final save.                                       *)
(***************************************************************************)
\* Mutant: the closed bucket is not dumped.
ProgressFiles_no_closed(p_results, p_closed, p_failed, p_low_priority) ==
    LET content == [ qualified |-> p_results, lowpriority |-> p_low_priority ]
    IN  [ k \in { f \in DOMAIN content : content[f] # <<>> } |-> content[k] ]

\* The files save_progress writes: one per bucket it dumps, when non-empty.
\* (The failed parameter is never read by the function.)
ProgressFiles(p_results, p_closed, p_failed, p_low_priority) ==
    LET content == [ qualified |-> p_results, closed |-> p_closed,
                     lowpriority |-> p_low_priority ]
    IN  [ k \in { f \in DOMAIN content : content[f] # <<>> } |-> content[k] ]

\* One call of save_progress: its arguments and the files it wrote (none when
\* the write raised).
save_progress(p_results, p_closed, p_failed, p_low_priority, p_batch_num, raised) ==
    [ batch_num |-> p_batch_num,
      raised |-> raised,
      args |-> [ results |-> p_results, closed |-> p_closed,
                 failed |-> p_failed, low_priority |-> p_low_priority ],
      files |-> IF raised THEN <<>>
                ELSE ProgressFiles(p_results, p_closed, p_failed, p_low_priority) ]

priority_order(p) ==
    CASE p = "HIGH" -> 0 [] p = "MEDIUM" -> 1 [] p = "LOW" -> 2 [] OTHER -> 3

\* sort_values(['priority_rank', 'overall_score']) sorts ascending and keeps
\* the order of equal rows.
QualifiedBefore(a, b) ==
    \/ priority_order(a.priority) < priority_order(b.priority)
    \/ /\ priority_order(a.priority) = priority_order(b.priority)
       /\ a.overall_score < b.overall_score

RECURSIVE InsertQualified(_, _)
InsertQualified(sorted, e) ==
    IF sorted = <<>> THEN << e >>
    ELSE IF QualifiedBefore(e, sorted[Len(sorted)])
         THEN Append(InsertQualified(SubSeq(sorted, 1, Len(sorted) - 1), e),
                     sorted[Len(sorted)])
         ELSE Append(sorted, e)

RECURSIVE SortQualified(_)
SortQualified(s) ==
    IF s = <<>> THEN <<>>
    ELSE InsertQualified(SortQualified(SubSeq(s, 1, Len(s) - 1)), s[Len(s)])

(***************************************************************************)
(* main and process_businesses_batch.  main_pc:                            *)
(*   loop          at the head of "for i in range(0, len, BATCH_SIZE)"     *)
(*   launch        at "await p.chromium.launch(...)"                       *)
(*   new_context   at "await browser.new_context(...)"                     *)
(*   draining      in "for task in asyncio.as_completed(tasks)"            *)
(*   close_browser at "await browser.close()"                              *)
(*   batch_return  leaving "async with async_playwright()", about to       *)
(*                 return the batch's buckets to main                      *)
(*   batch_except  an exception left the try block of the batch loop       *)
(*   done          main has returned after the final save                  *)
(*   interrupted   the run was interrupted                                 *)
(***************************************************************************)
TaskVarsUnchanged == UNCHANGED << semaphore, tasks, done_queue >>

BucketsUnchanged == UNCHANGED << results, closed, failed, low_priority >>

AllUnchanged ==
    UNCHANGED << all_results, all_closed, all_failed, all_low_priority >>

ConfigUnchanged ==
    UNCHANGED << call_args, call_rets, batch_size, businesses, world >>

\* The next batch is sliced and process_businesses_batch is called.
StartBatch ==
    /\ main_pc = "loop"
    /\ batch_num < total_batches
    /\ batch_num' = batch_num + 1
    /\ clock' = clock + 1
    /\ main_pc' = "launch"
    /\ ConfigUnchanged /\ TaskVarsUnchanged /\ BucketsUnchanged /\ AllUnchanged
    /\ UNCHANGED << batch_exc, browsers, progress_saves, final_output >>

\* Mutant: the browser launched for a failed batch is left running.
PlaywrightExit_leak == browsers

\* An exception leaves "async with async_playwright()": the playwright
\* driver is stopped, which ends the browser process it launched.
PlaywrightExit == browsers \ {batch_num}

LaunchBrowser ==
    /\ main_pc = "launch"
    /\ \/ /\ browsers' = browsers \cup {batch_num}
          /\ main_pc' = "new_context"
          /\ UNCHANGED batch_exc
       \/ /\ main_pc' = "batch_except"
          /\ batch_exc' = "launch"
          /\ UNCHANGED browsers
    /\ ConfigUnchanged /\ TaskVarsUnchanged /\ BucketsUnchanged /\ AllUnchanged
    /\ UNCHANGED << batch_num, clock, progress_saves, final_output >>

\* browser.new_context returns; the buckets and the semaphore are created and
\* as_completed schedules one task per business of the batch.
NewContext ==
    /\ main_pc = "new_context"
    /\ \/ /\ main_pc' = "draining"
          /\ results' = <<>> /\ closed' = <<>> /\ failed' = <<>>
          /\ low_priority' = <<>>
          /\ semaphore' = CONCURRENT_PAGES_PER_BROWSER
          /\ tasks' = [ r \in Rows |->
                          IF r \in BatchRows(batch_num)
                          THEN [NoTask EXCEPT !.pc = "waiting"]
                          ELSE tasks[r] ]
          /\ done_queue' = <<>>
          /\ UNCHANGED << batch_exc, browsers >>
       \/ /\ main_pc' = "batch_except"
          /\ batch_exc' = "new_context"
          /\ browsers' = PlaywrightExit
          /\ TaskVarsUnchanged /\ BucketsUnchanged
    /\ ConfigUnchanged /\ AllUnchanged
    /\ UNCHANGED << batch_num, clock, progress_saves, final_output >>

\* Mutant: the chain has no branch for the high_priority status.
Bucket_no_high_priority(result, status) ==
    IF status = "qualified" THEN "results"
    ELSE IF status = "closed" THEN "closed"
    ELSE IF status = "low_priority" THEN "low_priority"
    ELSE IF result = NoneResult THEN "failed"
    ELSE "none"

\* Mutant: the chain has no branch for a task that returned None.
Bucket_no_failed(result, status) ==
    IF status \in {"qualified", "high_priority"} THEN "results"
    ELSE IF status = "closed" THEN "closed"
    ELSE IF status = "low_priority" THEN "low_priority"
    ELSE "none"

\* The if/elif chain of the completion loop: the bucket a (result, status)
\* pair is appended to, "none" when no branch matches.
Bucket(result, status) ==
    IF status = "qualified" THEN "results"
    ELSE IF status = "high_priority" THEN "results"
    ELSE IF status = "closed" THEN "closed"
    ELSE IF status = "low_priority" THEN "low_priority"
    ELSE IF result = NoneResult THEN "failed"
    ELSE "none"

\* Mutant: the loop ends as soon as no finished task is queued.
LastOfBatch_queue_empty(r) == Tail(done_queue) = <<>>

\* as_completed yields every task of the batch: the loop is over when the
\* task just drained was the last one.
LastOfBatch(r) ==
    \A q \in BatchRows(batch_num) \ {r} : tasks[q].pc = "drained"

\* The completion loop takes the next finished task and buckets its result;
\* after the last one the loop ends and browser.close() is awaited.
Drain ==
    /\ main_pc = "draining"
    /\ done_queue # <<>>
    /\ LET r      == Head(done_queue)
           result == tasks[r].result
           status == tasks[r].status
           bucket == Bucket(result, status)
       IN  /\ results' = IF bucket = "results"
                         THEN Append(results, result) ELSE results
           /\ closed' = IF bucket = "closed" THEN Append(closed, result) ELSE closed
           /\ low_priority' = IF bucket = "low_priority"
                              THEN Append(low_priority, result) ELSE low_priority
           \* row is not a field of the code's entry: it records whose entry it is
           /\ failed' = IF bucket = "failed"
                        THEN Append(failed, [ reason |-> status, row |-> r ])
                        ELSE failed
           /\ tasks' = [tasks EXCEPT ![r].pc = "drained"]
           /\ done_queue' = Tail(done_queue)
           /\ main_pc' = IF LastOfBatch(r) THEN "close_browser" ELSE "draining"
    /\ ConfigUnchanged /\ AllUnchanged
    /\ UNCHANGED << batch_num, batch_exc, browsers, clock, semaphore,
                    progress_saves, final_output >>

CloseBrowser ==
    /\ main_pc = "close_browser"
    /\ \/ /\ browsers' = browsers \ {batch_num}
          /\ main_pc' = "batch_return"
          /\ UNCHANGED batch_exc
       \/ /\ main_pc' = "batch_except"
          /\ batch_exc' = "close"
          /\ browsers' = PlaywrightExit
    /\ ConfigUnchanged /\ TaskVarsUnchanged /\ BucketsUnchanged /\ AllUnchanged
    /\ UNCHANGED << batch_num, clock, progress_saves, final_output >>

CheckpointDue == batch_num % CHECKPOINT_EVERY = 0

\* Mutant: the run-level bucket is replaced by the batch's.
extend_replace(all, batch) == batch

\* list.extend
extend(all, batch) == all \o batch

\* process_businesses_batch returns: main extends the run-level buckets and,
\* every third batch, calls save_progress, whose writes may raise.
BatchReturn ==
    /\ main_pc = "batch_return"
    /\ all_results' = extend(all_results, results)
    /\ all_closed' = extend(all_closed, closed)
    /\ all_failed' = extend(all_failed, failed)
    /\ all_low_priority' = extend(all_low_priority, low_priority)
    /\ IF CheckpointDue
       THEN \/ /\ progress_saves' = Append(progress_saves,
                      save_progress(all_results', all_closed', all_failed',
                                    all_low_priority', batch_num, FALSE))
               /\ main_pc' = "loop"
               /\ UNCHANGED batch_exc
            \/ /\ all_results' \o all_closed' \o all_low_priority' # <<>>
               /\ progress_saves' = Append(progress_saves,
                      save_progress(all_results', all_closed', all_failed',
                                    all_low_priority', batch_num, TRUE))
               /\ main_pc' = "batch_except"
               /\ batch_exc' = "save_progress"
       ELSE /\ main_pc' = "loop"
            /\ UNCHANGED << progress_saves, batch_exc >>
    /\ ConfigUnchanged /\ TaskVarsUnchanged /\ BucketsUnchanged
    /\ UNCHANGED << batch_num, browsers, clock, final_output >>

\* Mutant: one entry for the whole batch instead of one per business.
batch_failed_single ==
    << [ reason |-> "batch_failure", batch |-> batch_num,
         row |-> (batch_num - 1) * batch_size + 1 ] >>

\* batch_failed = [{'reason': f'batch_failure: ...', 'batch': batch_num} for _ in batch]
\* (row is not a field of the code's entry: it records whose entry it is)
batch_failed ==
    LET first == (batch_num - 1) * batch_size
        size  == Cardinality(BatchRows(batch_num))
    IN  [ k \in 1 .. size |->
            [ reason |-> "batch_failure", batch |-> batch_num, row |-> first + k ] ]

\* except Exception in the batch loop: every business of the batch is added
\* to all_failed; continue.
BatchExcept ==
    /\ main_pc = "batch_except"
    /\ all_failed' = extend(all_failed, batch_failed)
    /\ main_pc' = "loop"
    /\ batch_exc' = "none"
    /\ ConfigUnchanged /\ TaskVarsUnchanged /\ BucketsUnchanged
    /\ UNCHANGED << all_results, all_closed, all_low_priority, batch_num,
                    browsers, clock, progress_saves, final_output >>

\* The loop is over: the four run-level buckets are written, each when
\* non-empty, the qualified one sorted.
FinalSave ==
    /\ main_pc = "loop"
    /\ batch_num = total_batches
    /\ final_output' = [ written |-> TRUE,
                         qualified |-> SortQualified(all_results),
                         low_priority |-> all_low_priority,
                         closed |-> all_closed,
                         failed |-> all_failed ]
    /\ main_pc' = "done"
    /\ ConfigUnchanged /\ TaskVarsUnchanged /\ BucketsUnchanged /\ AllUnchanged
    /\ UNCHANGED << batch_num, batch_exc, browsers, clock, progress_saves >>

\* KeyboardInterrupt: main stops where it is (its handler only prints), the
\* unfinished tasks are cancelled and the process ends, the browser with it.
Interrupt ==
    /\ main_pc \notin {"done", "interrupted"}
    /\ main_pc' = "interrupted"
    /\ tasks' = [ r \in Rows |->
                    IF tasks[r].pc \in {"none", "drained"} THEN tasks[r]
                    ELSE [NoTask EXCEPT !.pc = "cancelled"] ]
    /\ browsers' = {}
    /\ done_queue' = <<>>
    /\ semaphore' = 0
    /\ results' = <<>> /\ closed' = <<>> /\ failed' = <<>> /\ low_priority' = <<>>
    /\ batch_exc' = "none"
    /\ ConfigUnchanged /\ AllUnchanged
    /\ UNCHANGED << batch_num, clock, progress_saves, final_output >>

TaskStep(r) ==
    \/ AcquireSlot(r)
    \/ NewPage(r)
    \/ MapsDone(r)
    \/ QualityDone(r)
    \/ ClosePage(r)
    \/ ReleaseSlot(r)

Next ==
    \/ StartBatch
    \/ LaunchBrowser
    \/ NewContext
    \/ \E r \in Rows : TaskStep(r)
    \/ Drain
    \/ CloseBrowser
    \/ BatchReturn
    \/ BatchExcept
    \/ FinalSave
    \/ Interrupt

Spec == Init /\ [][Next]_vars

\* The steps the event loop takes by itself: main and the completion loop go
\* on, a task takes a free slot, closes its tab, ends its sleep.
Scheduled ==
    \/ StartBatch
    \/ LaunchBrowser
    \/ NewContext
    \/ \E r \in Rows : AcquireSlot(r) \/ ClosePage(r) \/ ReleaseSlot(r)
    \/ Drain
    \/ CloseBrowser
    \/ BatchReturn
    \/ BatchExcept
    \/ FinalSave

\* A call into the browser that a task awaits returns or raises.
AwaitReturns == \E r \in Rows : NewPage(r) \/ MapsDone(r) \/ QualityDone(r)

\* Some task awaits a call into the browser: the condition under which
\* AwaitReturns can happen.
AwaitPending ==
    /\ main_pc = "draining"
    /\ \E r \in Rows : tasks[r].pc \in {"new_page", "maps", "quality"}

\* The scenarios of the fair runs: a task that raises and one that goes
\* through every stage.
LiveScenarios ==
    { Scenario(N_acme, W_plain, PlaceActive,  SitePoor, TRUE),
      Scenario(N_acme, W_plain, PlaceActive,  SitePoor, FALSE) }

InitLive == InitWith({1, MaxBatchSize}, MaxRows, LiveScenarios)

\* The event loop runs whatever is ready (weak fairness of its steps), and
\* every awaited call into the browser returns or raises in finite time:
\* either no call stays pending or awaited calls keep returning.
SpecLive ==
    /\ InitLive /\ [][Next]_vars
    /\ WF_vars(Scheduled)
    /\ ([]<>~AwaitPending \/ []<><<AwaitReturns>>_vars)

\* The outcomes that are checkpointed: qualified, closed, low priority.
CheckpointScenarios ==
    << Scenario(N_acme, W_plain, PlaceActive, SitePoor, FALSE),
       Scenario(N_acme, W_plain, PlaceClosed, SiteGood, FALSE),
       Scenario(N_acme, W_plain, PlaceActive, SiteGood, FALSE) >>

\* Enough rows for two checkpoints in batches of one row.
CheckpointRows == CHECKPOINT_EVERY + CHECKPOINT_EVERY

\* Input files of CheckpointRows rows whose outcomes rotate through the
\* three checkpointed buckets, starting with any of them.
CheckpointInputs ==
    { [ r \in 1 .. CheckpointRows |->
          CheckpointScenarios[((r + k) % Len(CheckpointScenarios)) + 1] ] :
      k \in 1 .. Len(CheckpointScenarios) }

InitCheckpoints == InitRows({1}, CheckpointInputs)

SpecCheckpoints == InitCheckpoints /\ [][Next]_vars

\* A run over one record, in one batch, over every record scenario.
InitRecord == InitWith({1}, 1, RecordScenarios)

SpecRecord == InitRecord /\ [][Next]_vars


(***************************************************************************)
(* The synchronous functions called on their own: call_args holds the      *)
(* arguments, call_rets what the calls made so far returned.  The pipeline *)
(* is not running.                                                         *)
(***************************************************************************)
PipelineIdle ==
    /\ batch_size = 1
    /\ businesses = <<>> /\ world = <<>> /\ tasks = <<>>
    /\ main_pc = "none"
    /\ batch_num = 0
    /\ batch_exc = "none"
    /\ browsers = {}
    /\ semaphore = 0
    /\ done_queue = <<>>
    /\ results = <<>> /\ closed = <<>> /\ failed = <<>> /\ low_priority = <<>>
    /\ all_results = <<>> /\ all_closed = <<>> /\ all_failed = <<>>
    /\ all_low_priority = <<>>
    /\ progress_saves = <<>>
    /\ final_output = NoOutput

PipelineUnchanged ==
    UNCHANGED << batch_size, businesses, world, main_pc, batch_num, batch_exc,
                 browsers, semaphore, tasks, done_queue, results, closed,
                 failed, low_priority, all_results, all_closed, all_failed,
                 all_low_priority, progress_saves, final_output >>

\* The website_analysis arguments: every value of the fields
\* determine_qualification reads (scores in tenths).
WebsiteAnalyses ==
    [ accessible : BOOLEAN, has_ssl : BOOLEAN, mobile_responsive : BOOLEAN,
      mobile_score : 0 .. 10, overall_score : 0 .. 100 ]

\* The maps_result arguments.
MapsResults ==
    [ found : BOOLEAN, appears_active : BOOLEAN, confidence : {"low"} ]

\* The business_data argument: an input record.
BusinessData == [ row |-> 1, name |-> N_acme, website |-> W_plain ]

InitClassifier ==
    /\ PipelineIdle
    /\ clock = 0
    /\ call_rets = <<>>
    /\ \E wa \in WebsiteAnalyses, mr \in MapsResults :
          call_args = [ fn |-> "determine_qualification", website_analysis |-> wa,
                        maps_result |-> mr, business_data |-> BusinessData ]

\* determine_qualification is called, dt seconds after the previous call;
\* it reads the clock for analysis_date.
CallClassifier(dt) ==
    /\ call_args.fn = "determine_qualification"
    /\ Len(call_rets) < 2
    /\ clock' = clock + dt
    /\ call_rets' = Append(call_rets,
          determine_qualification(call_args.website_analysis,
                                  call_args.maps_result,
                                  call_args.business_data, clock'))
    /\ UNCHANGED call_args
    /\ PipelineUnchanged

NextClassifier == \E dt \in {0, 1} : CallClassifier(dt)

SpecClassifier == InitClassifier /\ [][NextClassifier]_vars

\* The results the dimension probes can return.
MobileResults ==
    { test_mobile_responsiveness(v) :
        v \in [ iPhone : ViewportAnalyses, Tablet : ViewportAnalyses,
                Desktop : ViewportAnalyses ] }

DesignScores == { analyze_design_modernity(d).score : d \in DesignAnalyses }

PerformanceScores == { analyze_performance(p).score : p \in PerformanceAnalyses }

ContentScores == { analyze_content_quality(c).score : c \in ContentAnalyses }

SeoScores == { analyze_seo_basics(a).score : a \in SeoAnalyses }

\* check_website_quality called on its own.  call_args.stage is the await the
\* call is at: "goto", then the probes in the order of the code ("security",
\* "mobile", "design", "performance", "content", "seo"), then "score" (the
\* report is built) and "returned".  call_args.site collects what the page
\* has answered so far.
InitScorer ==
    /\ PipelineIdle
    /\ clock = 0
    /\ call_rets = <<>>
    /\ \E website \in {W_plain, W_http} :
          call_args = [ fn |-> "check_website_quality", stage |-> "goto",
                        site |-> [SiteDown EXCEPT !.nav = "pending"],
                        url |-> clean_url(website) ]

AtStage(stage) ==
    call_args.fn = "check_website_quality" /\ call_args.stage = stage

\* The call moves to the next await with the site's answer recorded.
ScorerStep(site, stage) ==
    /\ call_args' = [call_args EXCEPT !.site = site, !.stage = stage]
    /\ UNCHANGED << call_rets, clock >>
    /\ PipelineUnchanged

\* The call returns a report.
ScorerReturn(site) ==
    /\ call_args' = [call_args EXCEPT !.site = site, !.stage = "returned"]
    /\ call_rets' = << check_website_quality(site, call_args.url) >>
    /\ UNCHANGED clock
    /\ PipelineUnchanged

\* page.goto returns a response below 400: the probes run.
GotoOk ==
    /\ AtStage("goto")
    /\ ScorerStep([call_args.site EXCEPT !.nav = "ok"], "security")

\* page.goto returns no response or a status >= 400, times out, or raises.
GotoFails(nav) ==
    /\ AtStage("goto")
    /\ ScorerReturn([call_args.site EXCEPT !.nav = nav])

ProbeSecurity(mixed_content) ==
    /\ AtStage("security")
    /\ ScorerStep([call_args.site EXCEPT !.mixed_content = mixed_content], "mobile")

ProbeMobile(mobile_analysis) ==
    /\ AtStage("mobile")
    /\ ScorerStep([call_args.site EXCEPT
                     !.is_responsive = mobile_analysis.is_responsive,
                     !.mobile = mobile_analysis.score], "design")

ProbeDesign(score) ==
    /\ AtStage("design")
    /\ ScorerStep([call_args.site EXCEPT !.design = score], "performance")

\* test_mobile_responsiveness and analyze_design_modernity have no handler of
\* their own: an exception of one of their page calls leaves the probe and
\* is caught by check_website_quality (the other probes catch theirs and
\* return a fallback score).
ProbeRaises(stage, nav) ==
    /\ AtStage(stage)
    /\ ScorerReturn([call_args.site EXCEPT !.nav = nav])

ProbePerformance(score) ==
    /\ AtStage("performance")
    /\ ScorerStep([call_args.site EXCEPT !.performance = score], "content")

ProbeContent(score) ==
    /\ AtStage("content")
    /\ ScorerStep([call_args.site EXCEPT !.content = score], "seo")

ProbeSeo(score) ==
    /\ AtStage("seo")
    /\ ScorerStep([call_args.site EXCEPT !.seo = score], "score")

\* The report is built; tie_up is the way the float sum of
\* calculate_overall_score falls when it lies next to a rounding boundary.
BuildReport(tie_up) ==
    /\ AtStage("score")
    /\ ScorerReturn([call_args.site EXCEPT !.tie_up = tie_up])

NextScorer ==
    \/ GotoOk
    \/ \E nav \in {"none", "http_error", "timeout", "raise"} : GotoFails(nav)
    \/ \E mixed_content \in BOOLEAN : ProbeSecurity(mixed_content)
    \/ \E m \in MobileResults : ProbeMobile(m)
    \/ \E d \in DesignScores : ProbeDesign(d)
    \/ \E stage \in {"mobile", "design"}, nav \in {"timeout", "raise"} :
          ProbeRaises(stage, nav)
    \/ \E p \in PerformanceScores : ProbePerformance(p)
    \/ \E c \in ContentScores : ProbeContent(c)
    \/ \E o \in SeoScores : ProbeSeo(o)
    \/ \E tie_up \in BOOLEAN : BuildReport(tie_up)

SpecScorer == InitScorer /\ [][NextScorer]_vars

\* The pieces raw website strings are put together from: schemes in both
\* cases, the "www." prefix, a host, a path, blanks, and characters that make
\* a host invalid.
UrlTokens ==
    { T_http, T_https, T_www, <<"H","T","T","P",":","/","/">>, W_plain,
      <<"a">>, <<".">>, <<"1">>, <<" ">>, <<"[">>, <<"/","p">>, T_mailto }

\* The strings of at most n pieces.
RECURSIVE RawUrls(_)
RawUrls(n) ==
    IF n = 0 THEN { <<>> }
    ELSE LET shorter == RawUrls(n - 1)
         IN  shorter \cup { s \o t : s \in shorter, t \in UrlTokens }

InitNormalizer ==
    /\ PipelineIdle
    /\ clock = 0
    /\ call_rets = <<>>
    /\ \E url \in RawUrls(MaxTokens) :
          call_args = [ fn |-> "clean_url", url |-> url ]

\* clean_url is called on the raw string, then on the URL it returned.
CallNormalizer ==
    /\ call_args.fn = "clean_url"
    /\ \/ /\ call_rets = <<>>
          /\ call_rets' = << clean_url(call_args.url) >>
       \/ /\ Len(call_rets) = 1
          /\ call_rets[1] # NoneUrl
          /\ call_rets' = Append(call_rets, clean_url(call_rets[1]))
    /\ UNCHANGED << call_args, clock >>
    /\ PipelineUnchanged

NextNormalizer == CallNormalizer

SpecNormalizer == InitNormalizer /\ [][NextNormalizer]_vars

ToUpper(c) ==
    IF \E i \in DOMAIN LowerLetters : LowerLetters[i] = c
    THEN UpperLetters[CHOOSE i \in DOMAIN LowerLetters : LowerLetters[i] = c]
    ELSE c

UpperStr(s) == [ i \in DOMAIN s |-> ToUpper(s[i]) ]

\* The listed platforms whose pattern is a host (goo.gl/maps is a host and a
\* path).
ListedHosts == { p \in SOCIAL_MEDIA_PATTERNS : "/" \notin Range(p) }

\* Hosts of businesses' own sites; two of them end in a listed domain.
BusinessHosts ==
    { <<"a","c","m","e",".","c","o">>, <<"f","e","d","e","x",".","c","o","m">>,
      <<"b","o","x",".","c","o","m">>, <<"a","c","m","e",".","c","o","m">> }

\* The website columns the classifier is tried on: a listed or a business
\* host, in lower or upper case, bare or as a subdomain, with or without a
\* path.
DomainWebsites ==
    { sub \o host \o path :
        sub  \in { <<>>, <<"m",".">> },
        host \in SOCIAL_MEDIA_PATTERNS \cup BusinessHosts
                 \cup { UpperStr(h) : h \in SOCIAL_MEDIA_PATTERNS \cup BusinessHosts },
        path \in { <<>>, <<"/","p">> } }

InitDomain ==
    /\ PipelineIdle
    /\ clock = 0
    /\ call_rets = <<>>
    /\ \E website \in DomainWebsites :
          /\ clean_url(website) # NoneUrl
          /\ call_args = [ fn |-> "is_social_media_url", url |-> clean_url(website) ]

\* process_business asks the classifier about the cleaned website.
CallDomain ==
    /\ call_args.fn = "is_social_media_url"
    /\ call_rets = <<>>
    /\ call_rets' = << is_social_media_url(call_args.url) >>
    /\ UNCHANGED << call_args, clock >>
    /\ PipelineUnchanged

NextDomain == CallDomain

SpecDomain == InitDomain /\ [][NextDomain]_vars


(***************************************************************************)
(* Properties.                                                             *)
(***************************************************************************)
\* The batch number of a row.
BatchOf(r) == ((r - 1) \div batch_size) + 1

\* The tasks that hold a slot: inside process_business or in the delay.
InProgress == { r \in Rows : tasks[r].pc \in RunningPcs }

\* The tasks of a batch that have been created and not yet drained.
Unfinished == { r \in Rows : tasks[r].pc \in RunningPcs \cup {"waiting", "done"} }

\* The row of a bucket entry: results carry the input record, failed entries
\* the row they were made for.
RowOf(e) == IF "business" \in DOMAIN e THEN e.business.row ELSE e.row

\* The number of entries of sequence s that belong to row r.
RECURSIVE CountRow(_, _)
CountRow(s, r) ==
    IF s = <<>> THEN 0
    ELSE (IF RowOf(Head(s)) = r THEN 1 ELSE 0) + CountRow(Tail(s), r)

\* C1: within a batch, at most CONCURRENT_PAGES_PER_BROWSER businesses are in
\* progress (hold a slot) at any time, whatever the batch size and the
\* order in which tasks finish; the slots in use and the free slots add up
\* to the configured concurrency while the batch runs.
C1_ConcurrencyBound ==
    /\ Cardinality(InProgress) <= CONCURRENT_PAGES_PER_BROWSER
    /\ main_pc = "draining" =>
          semaphore + Cardinality(InProgress) = CONCURRENT_PAGES_PER_BROWSER

\* A batch of three: two businesses in progress, each past its first await,
\* and the third waiting for a slot.
C1_Witness ==
    /\ Cardinality(InProgress) = CONCURRENT_PAGES_PER_BROWSER
    /\ Waiting # {}
    /\ \A r \in InProgress : tasks[r].pc # "new_page"

\* The records main's buckets hold at the end, and the rejected rows: the
\* rows process_business gave up with no_name, social_media or, from
\* determine_qualification, not_accessible.
Rejected ==
    { r \in Rows : tasks[r].status \in {"no_name", "social_media", "not_accessible"} }

OutcomeCount ==
    Len(all_results) + Len(all_closed) + Len(all_low_priority) + Len(all_failed)

\* C2: after a full run the four buckets hold as many entries as there are
\* survivor records (rows not rejected), and rejected rows plus bucket
\* entries equal the input rows.
C2_OutcomesEqualSurvivors ==
    main_pc = "done" =>
        /\ OutcomeCount = Len(businesses) - Cardinality(Rejected)
        /\ Cardinality(Rejected) + OutcomeCount = Len(businesses)

\* C3: batches run strictly one after the other: at most one browser process
\* is alive, it is the current batch's, every task that exists and is not
\* finished belongs to the current batch and runs under that browser, and
\* when main is at the loop head or launching the next browser no browser
\* is alive, on the normal and on the failure path.
C3_BatchesSequential ==
    /\ Cardinality(browsers) <= 1
    /\ browsers \subseteq {batch_num}
    /\ \A r \in Unfinished : BatchOf(r) = batch_num /\ batch_num \in browsers
    /\ main_pc \in {"loop", "launch", "batch_except", "done"} => browsers = {}

\* The second batch's browser is up after the first batch failed with its
\* browser launched.
C3_Witness ==
    /\ batch_num = 2
    /\ browsers = {2}
    /\ tasks[1].pc = "drained"
    /\ \E i \in DOMAIN all_failed : all_failed[i].reason = "batch_failure"

\* The entries of the batch's buckets for row r.
LocalCount(r) ==
    CountRow(results, r) + CountRow(closed, r) + CountRow(low_priority, r)
    + CountRow(failed, r)

\* C4: each batch is a barrier: when main extends the run-level buckets
\* (batch_return), has written a checkpoint, handles a batch failure or is
\* about to start the next batch, no task is pending, running or undrained,
\* and at batch_return every business of the batch is in exactly one of the
\* batch's buckets.
C4_BatchBarrier ==
    /\ main_pc \in {"batch_return", "batch_except", "loop", "launch",
                    "new_context", "done"} => Unfinished = {}
    /\ main_pc = "batch_return" =>
          \A r \in BatchRows(batch_num) :
              tasks[r].pc = "drained" /\ LocalCount(r) = 1
    /\ \A i \in DOMAIN progress_saves :
          \A r \in Rows : BatchOf(r) <= progress_saves[i].batch_num =>
              tasks[r].pc \in {"none", "drained"}

\* A contended batch of three has been drained and is about to be returned.
C4_Witness ==
    /\ main_pc = "batch_return"
    /\ Cardinality(BatchRows(batch_num)) = MaxBatchSize
    /\ Len(failed) >= 1 /\ Len(results) >= 1

BatchRaised == batch_exc \in {"launch", "new_context", "close"}

\* C6: when process_businesses_batch raises for batch k, main adds exactly
\* len(batch) batch_failure entries for batch k to the failed bucket, one per
\* business, leaves every earlier entry and the other three buckets as they
\* were (nothing of batch k reaches them), and goes on with the loop.
C6_BatchFailureRecorded ==
    [][ (main_pc = "batch_except" /\ BatchRaised /\ main_pc' # "interrupted") =>
          /\ Len(all_failed') = Len(all_failed) + Cardinality(BatchRows(batch_num))
          /\ SubSeq(all_failed', 1, Len(all_failed)) = all_failed
          /\ \A r \in BatchRows(batch_num) :
                /\ CountRow(all_failed', r) = 1
                /\ CountRow(all_results' \o all_closed' \o all_low_priority', r) = 0
          /\ \A i \in (Len(all_failed) + 1) .. Len(all_failed') :
                /\ all_failed'[i].reason = "batch_failure"
                /\ all_failed'[i].batch = batch_num
          /\ all_results' = all_results
          /\ all_closed' = all_closed
          /\ all_low_priority' = all_low_priority
          /\ main_pc' = "loop"
          /\ batch_num' = batch_num
      ]_vars

\* A contended batch whose tasks produced results failed at browser.close():
\* its results were dropped, its businesses are recorded as failed.
C6_Witness ==
    /\ main_pc = "loop"
    /\ batch_num = 1
    /\ Cardinality(BatchRows(1)) = MaxBatchSize
    /\ results # <<>>
    /\ all_results = <<>>
    /\ Len(all_failed) = MaxBatchSize
    /\ \A i \in DOMAIN all_failed : all_failed[i].reason = "batch_failure"


\* The checkpoints that were written: the calls of save_progress that did
\* not raise.
Written == { i \in DOMAIN progress_saves : ~progress_saves[i].raised }

\* The content of file k of a checkpoint (empty when it wrote no such file).
FileOf(save, k) == IF k \in DOMAIN save.files THEN save.files[k] ELSE <<>>

\* The entries some written checkpoint holds.
Flushed ==
    UNION { Range(FileOf(progress_saves[i], k)) :
              i \in Written, k \in {"qualified", "closed", "lowpriority", "failed"} }

\* The batches with an outcome in the run-level buckets that no written
\* checkpoint holds.
UnflushedBatches ==
    { BatchOf(RowOf(e)) :
        e \in (Range(all_results) \cup Range(all_closed)
               \cup Range(all_low_priority) \cup Range(all_failed)) \ Flushed }

C8_InterruptFlushes ==
    (main_pc = "interrupted" /\ OutcomeCount > 0) =>
        \/ final_output.written
        \/ UnflushedBatches = {}

\* The batches that are over: main is past them, or at the loop head (or
\* done) with the batch as its latest.
BatchOver(b) ==
    \/ b < batch_num
    \/ b = batch_num /\ main_pc \in {"loop", "done"}

\* C9: save_progress has been called, with the buckets accumulated up to
\* that batch, for every finished batch whose number is a multiple of
\* CHECKPOINT_EVERY, however the batch ended; and at the end of the run the
\* four buckets are persisted.
C9_CheckpointCadence ==
    /\ \A b \in 1 .. batch_num :
          (b % CHECKPOINT_EVERY = 0 /\ BatchOver(b)) =>
              \E i \in DOMAIN progress_saves : progress_saves[i].batch_num = b
    /\ main_pc = "done" =>
          /\ final_output.written
          /\ final_output.closed = all_closed
          /\ final_output.failed = all_failed
          /\ final_output.low_priority = all_low_priority
          /\ Len(final_output.qualified) = Len(all_results)

\* C10: every checkpoint written holds each of the four buckets that was
\* non-empty when save_progress was called.
C10_CheckpointHasFourBuckets ==
    \A i \in Written :
        LET save == progress_saves[i]
        IN  /\ FileOf(save, "qualified") = save.args.results
            /\ FileOf(save, "closed") = save.args.closed
            /\ FileOf(save, "lowpriority") = save.args.low_priority
            /\ FileOf(save, "failed") = save.args.failed

(***************************************************************************)
(* Claims about one record's way through process_business and the          *)
(* completion loop (SpecRecord).                                           *)
(***************************************************************************)
\* The completion loop is over or running: the batch's buckets are live.
BucketsLive == main_pc \in {"draining", "close_browser", "batch_return"}

\* Row r has a name process_business accepts and a tab to work in.
Named(r) == ~NoName(Strip(businesses[r].name)) /\ ~world[r].new_page_fails

\* clean_url of row r's website column.
CleanedOf(r) == clean_url(Strip(businesses[r].website))

\* C11: an unusable input record (no name, or a website that is only a
\* social-media or listing profile) is reported as rejected by
\* process_business (result None) and, once the completion loop has drained
\* it, has no entry in any of the four buckets, the failed one included.
C11_RejectedDropped ==
    \A r \in Rows :
        (tasks[r].status \in {"no_name", "social_media"} /\ BucketsLive) =>
            /\ tasks[r].result = NoneResult
            /\ tasks[r].pc = "drained" => LocalCount(r) = 0

\* C12: a named business whose website is inaccessible (HTTP status >= 400)
\* and which the presence search does not find is rejected by
\* determine_qualification with not_accessible and has no entry in the
\* qualified, closed, low-priority or failed bucket.
C12_InaccessibleUnfoundDropped ==
    \A r \in Rows :
        ( /\ Named(r)
          /\ CleanedOf(r) # NoneUrl /\ ~is_social_media_url(CleanedOf(r))
          /\ world[r].site.nav = "http_error"
          /\ ~search_google_maps(world[r].place).found
          /\ tasks[r].pc = "drained" /\ BucketsLive ) =>
            /\ tasks[r].status = "not_accessible"
            /\ LocalCount(r) = 0

\* C13: a business with a name, no usable website value (clean_url returns
\* None) and a presence result found and appears_active yields exactly one
\* entry, in the qualified bucket, with priority HIGH and reason 'Active
\* business without functional website', and no entry in another bucket.
C13_NoWebsiteActiveIsHigh ==
    \A r \in Rows :
        ( /\ Named(r)
          /\ CleanedOf(r) = NoneUrl
          /\ search_google_maps(world[r].place).found
          /\ search_google_maps(world[r].place).appears_active
          /\ tasks[r].pc = "drained" /\ BucketsLive ) =>
            /\ CountRow(results, r) = 1
            /\ CountRow(closed \o low_priority \o failed, r) = 0
            /\ \A i \in DOMAIN results :
                  RowOf(results[i]) = r =>
                     /\ results[i].priority = "HIGH"
                     /\ results[i].qualification_reason =
                            "Active business without functional website"
                     /\ results[i].business = businesses[r]

\* The record without a website, found and active, has been bucketed.
C13_Witness ==
    /\ main_pc = "batch_return"
    /\ Named(1) /\ CleanedOf(1) = NoneUrl
    /\ search_google_maps(world[1].place).appears_active
    /\ Len(results) = 1 /\ results[1].status = "needs_website"

\* The statuses only determine_qualification returns: the task ran the
\* place search and classified the record.
Searched(r) ==
    tasks[r].status \in {"not_accessible", "closed", "high_priority", "qualified",
                         "low_priority"}

\* The place search shows results and its page text has a closure phrase.
ClosurePhrase(place) ==
    ~place.raises /\ place.result_count > 0 /\ place.is_closed

\* C14: a named business whose place-search result text contains a closure
\* phrase is classified closed whatever its website (absent, unreachable,
\* reachable with good or poor scores, with or without SSL), and once drained
\* has exactly one entry, in the closed bucket, and none in another bucket.
C14_ClosurePhraseIsClosed ==
    \A r \in Rows :
        (Searched(r) /\ ClosurePhrase(world[r].place) /\ BucketsLive) =>
            /\ tasks[r].status = "closed"
            /\ tasks[r].result.status = "closed"
            /\ tasks[r].pc = "drained" =>
                  /\ CountRow(closed, r) = 1
                  /\ CountRow(results \o low_priority \o failed, r) = 0

\* A business with a reachable, well-scoring website and an active cue next
\* to the closure phrase has been bucketed as closed.
C14_Witness ==
    /\ main_pc = "batch_return"
    /\ world[1].site = SiteGood /\ world[1].place = PlaceClosed
    /\ CleanedOf(1) # NoneUrl
    /\ Len(closed) = 1 /\ results = <<>> /\ failed = <<>> /\ low_priority = <<>>

C16_QualifiedIff ==
    \A i \in DOMAIN call_rets :
        LET wa == call_args.website_analysis
            q  == call_rets[i]
        IN  (call_args.fn = "determine_qualification" /\ wa.accessible
             /\ q.status # "closed") =>
               /\ q.status \in {"qualified", "low_priority"}
               /\ q.result.status = q.status
               /\ q.result.overall_score = wa.overall_score
               /\ q.status = "qualified" <=>
                     (q.result.priority \in {"HIGH", "MEDIUM"}
                      \/ wa.overall_score <= 70)
               /\ (wa.has_ssl /\ wa.overall_score = 85 /\ wa.mobile_score = 9
                   /\ wa.mobile_responsive) => q.status = "low_priority"

\* The HTTPS site with composite 8.5 and mobile score 9 was classified.
C16_Witness ==
    /\ call_args.fn = "determine_qualification"
    /\ call_rets # <<>>
    /\ call_args.website_analysis =
          [ accessible |-> TRUE, has_ssl |-> TRUE, mobile_responsive |-> TRUE,
            mobile_score |-> 9, overall_score |-> 85 ]
    /\ call_args.maps_result.appears_active
    /\ call_rets[1].status = "low_priority"

\* The outcome categories a result can fall in.
Categories(q) ==
    { c \in {"qualified", "closed", "low_priority", "rejected"} :
        \/ c = "qualified" /\ q.status \in {"qualified", "high_priority"}
        \/ c = "closed" /\ q.status = "closed"
        \/ c = "low_priority" /\ q.status = "low_priority"
        \/ c = "rejected" /\ q.result = NoneResult }

\* C17: determine_qualification is pure and deterministic: two calls with
\* the same (website_analysis, maps_result, business_data), made at any two
\* times, return the same status and the same result record in every field,
\* and every result falls in exactly one outcome category.
C17_Deterministic ==
    call_args.fn = "determine_qualification" =>
        /\ \A i \in DOMAIN call_rets : Cardinality(Categories(call_rets[i])) = 1
        /\ Len(call_rets) = 2 => call_rets[1] = call_rets[2]

(***************************************************************************)
(* Claims about the Quality Scorer (SpecScorer).                           *)
(***************************************************************************)
\* The exact weighted sum of a report's six sub-scores, in hundredths.
ExactComposite(report) ==
    25 * report.mobile_score + 20 * report.design_score
    + 15 * report.security_score + 15 * report.performance_score
    + 15 * report.content_score + 10 * report.seo_score

SubScores(report) ==
    { report.mobile_score, report.design_score, report.security_score,
      report.performance_score, report.content_score, report.seo_score }

\* C18: for every combination of sub-scores the probes can produce, each in
\* 0..10, the composite is mobile*0.25 + design*0.20 + security*0.15 +
\* performance*0.15 + content*0.15 + seo*0.10 rounded to one decimal (the
\* nearest tenth, either neighbour when the sum lies half-way), the weights
\* sum to 1.0, and the overall_score of every report, of an accessible site
\* or built by a create_*_analysis helper, lies in [0.0, 10.0].
C18_CompositeWeighted ==
    /\ WeightedSum([ k \in DOMAIN weights |-> 1 ], weights) = 100
    /\ \A i \in DOMAIN call_rets :
          call_args.fn = "check_website_quality" =>
            LET report == call_rets[i]
                h      == ExactComposite(report)
            IN  /\ SubScores(report) \subseteq 0 .. 10
                /\ report.overall_score \in 0 .. 100
                /\ report.accessible =>
                      /\ 10 * report.overall_score - h \in -5 .. 5
                      /\ h % 10 # 5 => report.overall_score = (h + 5) \div 10
                /\ ~report.accessible => report.overall_score = 0

\* A report whose weighted sum lies half-way between two tenths and was
\* rounded up, with every sub-score above zero.
C18_Witness ==
    /\ call_args.fn = "check_website_quality"
    /\ call_rets # <<>>
    /\ call_rets[1].accessible
    /\ ExactComposite(call_rets[1]) % 10 = 5
    /\ 10 * call_rets[1].overall_score > ExactComposite(call_rets[1])
    /\ 0 \notin SubScores(call_rets[1])

(***************************************************************************)
(* Claims about the Normalizer and the Domain Classifier.                  *)
(***************************************************************************)
\* C19: clean_url is total and idempotent over raw website strings: every
\* call returns None or a URL with a scheme, and whenever clean_url(s) = u is
\* not None, clean_url(u) = u, also for inputs with repeated scheme or
\* "www." prefixes.
C19_CleanUrlIdempotent ==
    call_args.fn = "clean_url" =>
        /\ \A i \in DOMAIN call_rets :
              \/ call_rets[i] = NoneUrl
              \/ StartsWith(call_rets[i], T_https)
              \/ StartsWith(call_rets[i], T_http)
        /\ Len(call_rets) = 2 => call_rets[2] = call_rets[1]

\* The host of a normalized address, in lower case.
HostOf(url) == LowerStr(Netloc(url))

\* C20: the domain classifier returns true for every normalized address whose
\* host is one of the listed social or listing domains, in any letter case,
\* and false for every plain business domain, also when the business host
\* merely contains a listed domain as a substring (fedex.com ends in x.com).
C20_DomainClassifier ==
    (call_args.fn = "is_social_media_url" /\ call_rets # <<>>) =>
        /\ HostOf(call_args.url) \in ListedHosts => call_rets[1] = TRUE
        /\ HostOf(call_args.url) \in BusinessHosts => call_rets[1] = FALSE


(***************************************************************************)
(* Tabs.                                                                   *)
(***************************************************************************)
OpenPages == { r \in Rows : tasks[r].page = "open" }

\* C21: a tab belongs to the task that created it and is open only while
\* that task holds a slot: at most as many tabs are open as there are slots,
\* a task that awaits the presence search or the quality check has its own
\* tab open, a task that has not yet passed context.new_page() has none, and
\* whichever way process_business was left (rejection, normal return,
\* exception) the tab is closed before the task sleeps and releases its slot.
C21_PageOwnedAndClosed ==
    /\ Cardinality(OpenPages) <= CONCURRENT_PAGES_PER_BROWSER
    /\ OpenPages \subseteq InProgress
    /\ \A r \in Rows :
         /\ tasks[r].pc \in {"maps", "quality", "closing"} => tasks[r].page = "open"
         /\ tasks[r].pc \in {"none", "waiting", "new_page", "cancelled"}
              => tasks[r].page = "none"
         /\ tasks[r].pc \in {"sleeping", "done", "drained"}
              => tasks[r].page = IF world[r].new_page_fails THEN "none" ELSE "closed"

\* In a batch of more tasks than slots every slot has a tab open, after a
\* task that was rejected for its name has closed its tab and returned.
C21_Witness ==
    /\ Cardinality(OpenPages) = CONCURRENT_PAGES_PER_BROWSER
    /\ Cardinality(BatchRows(batch_num)) > CONCURRENT_PAGES_PER_BROWSER
    /\ \E r \in Rows :
         /\ tasks[r].pc = "drained"
         /\ tasks[r].status = "no_name"
         /\ tasks[r].page = "closed"


\* How urgent a priority is: the higher, the more urgent.
Urgency(p) ==
    CASE p = "HIGH" -> 3 [] p = "MEDIUM" -> 2 [] p = "LOW" -> 1 [] OTHER -> 0

\* C22: for an accessible site of a business found active, the priority
\* determine_qualification returns is the most urgent of the base priority
\* of the composite score (at most 4 HIGH, at most 6 MEDIUM, at most 7.5 LOW,
\* above that VERY_LOW), HIGH when there is no SSL, MEDIUM when the site is
\* not responsive and HIGH when the mobile score is at most 3; it is never
\* less urgent than the base.
C22_PriorityIsMostUrgent ==
    \A i \in DOMAIN call_rets :
        LET wa   == call_args.website_analysis
            mr   == call_args.maps_result
            q    == call_rets[i]
            base == IF wa.overall_score <= 40 THEN 3
                    ELSE IF wa.overall_score <= 60 THEN 2
                    ELSE IF wa.overall_score <= 75 THEN 1 ELSE 0
            most == Max(Max(base, IF ~wa.has_ssl THEN 3 ELSE 0),
                        Max(IF ~wa.mobile_responsive THEN 2 ELSE 0,
                            IF wa.mobile_score <= 3 THEN 3 ELSE 0))
        IN  (call_args.fn = "determine_qualification" /\ wa.accessible
             /\ mr.found /\ mr.appears_active) =>
               /\ "priority" \in DOMAIN q.result
               /\ q.result.priority \in {"HIGH", "MEDIUM", "LOW", "VERY_LOW"}
               /\ Urgency(q.result.priority) = most
               /\ Urgency(q.result.priority) >= base

\* A site with composite 3.5 (base HIGH) that is not responsive, with SSL and
\* a mobile score above 3, was classified for a business found active.
C22_Witness ==
    /\ call_args.fn = "determine_qualification"
    /\ call_rets # <<>>
    /\ call_args.website_analysis =
          [ accessible |-> TRUE, has_ssl |-> TRUE, mobile_responsive |-> FALSE,
            mobile_score |-> 5, overall_score |-> 35 ]
    /\ call_args.maps_result.found
    /\ call_args.maps_result.appears_active
    /\ call_rets[1].result.priority = "HIGH"


(***************************************************************************)
(* The stages of a slot.                                                   *)
(***************************************************************************)
\* The record has a name and its website normalizes to a URL that is not a
\* social profile.
HasWebsite(r) ==
    /\ ~NoName(Strip(businesses[r].name))
    /\ CleanedOf(r) # NoneUrl
    /\ ~is_social_media_url(CleanedOf(r))

\* The record has a name and no usable website.
HasNoWebsite(r) ==
    ~NoName(Strip(businesses[r].name)) /\ CleanedOf(r) = NoneUrl

\* process_business has left its try block for the task.
Left(r) == tasks[r].pc \in {"closing", "sleeping", "done", "drained"}

\* What process_business returns for the task.
Returned(r) == [ result |-> tasks[r].result, status |-> tasks[r].status ]

C23_OutcomeIsClassified ==
    \A r \in Rows :
        LET maps_result == search_google_maps(world[r].place)
        IN  /\ (HasWebsite(r) /\ ~world[r].new_page_fails /\ Left(r)) =>
                  Returned(r) = determine_qualification(
                                    check_website_quality(world[r].site, CleanedOf(r)),
                                    maps_result, businesses[r], clock)
            /\ (HasNoWebsite(r) /\ ~world[r].new_page_fails /\ Left(r)) =>
                  Returned(r) = determine_qualification(
                                    create_failed_analysis("None"),
                                    maps_result, businesses[r], clock)
            /\ tasks[r].pc \in {"maps", "quality"} =>
                  (HasWebsite(r) \/ HasNoWebsite(r)) /\ tasks[r].page = "open"
            /\ tasks[r].pc = "quality" =>
                  /\ HasWebsite(r)
                  /\ tasks[r].cleaned_website = CleanedOf(r)
                  /\ tasks[r].maps_result = maps_result

\* The order of the stages of one task: the presence search starts when the
\* tab is there, the quality check starts when the presence search returns
\* and only for a record with a website, and the record is classified when
\* the quality check returns or, without a website, when the presence search
\* returns.
C23_StagesInOrder ==
    \A r \in Rows :
        /\ (tasks'[r].pc = "maps" /\ tasks[r].pc # "maps") =>
              tasks[r].pc = "new_page"
        /\ (tasks'[r].pc = "quality" /\ tasks[r].pc # "quality") =>
              tasks[r].pc = "maps"
        /\ (tasks[r].pc = "new_page" /\ tasks'[r].pc \in RunningPcs
            /\ ~world[r].new_page_fails /\ (HasWebsite(r) \/ HasNoWebsite(r))) =>
              tasks'[r].pc \in {"new_page", "maps"}
        /\ (tasks[r].pc = "maps" /\ tasks'[r].pc \in RunningPcs) =>
              tasks'[r].pc \in {"maps", IF HasWebsite(r) THEN "quality" ELSE "closing"}
        /\ (tasks[r].pc = "quality" /\ tasks'[r].pc \in RunningPcs) =>
              tasks'[r].pc \in {"quality", "closing"}

C24_FailuresBecomeReports ==
    call_args.fn = "check_website_quality" =>
        /\ call_args.stage = "returned" <=> call_rets # <<>>
        /\ \A i \in DOMAIN call_rets :
              LET report == call_rets[i]
                  nav    == call_args.site.nav
              IN  /\ nav \in {"none", "http_error", "timeout", "raise"} =>
                        /\ ~report.accessible
                        /\ SubScores(report) = {0}
                        /\ report.overall_score = 0
                        /\ report.error \notin {"None", ""}
                  /\ nav = "ok" => report.accessible /\ report.error = "None"
                  /\ nav \in {"none", "http_error", "timeout", "raise", "ok"}
                  /\ ~report.accessible => report.overall_score = 0

\* The design probe raised after the security and mobile probes had returned
\* a score above zero: the report is the error report.
C24_Witness ==
    /\ call_args.fn = "check_website_quality"
    /\ call_rets # <<>>
    /\ call_args.site.nav = "raise"
    /\ call_args.site.mobile > 0
    /\ ~call_rets[1].accessible
    /\ call_rets[1].error = "exception"
    /\ call_rets[1].mobile_score = 0


(***************************************************************************)
(* Termination.                                                            *)
(***************************************************************************)
\* The state of the run.  (save_progress is synchronous: Checkpointing is
\* the part of the step of main that calls it, between two Running states.)
RunState ==
    IF main_pc = "done" THEN "Completed"
    ELSE IF main_pc = "interrupted" THEN "Aborted"
    ELSE IF main_pc = "loop" /\ batch_num = 0 THEN "NotStarted"
    ELSE "Running"

RunRank(state) ==
    CASE state = "NotStarted" -> 0 [] state = "Running" -> 1 [] OTHER -> 2

BatchRunning ==
    main_pc \in {"launch", "new_context", "draining", "close_browser",
                 "batch_return", "batch_except"}

\* The run never moves backwards, never leaves Completed or Aborted, and
\* writes its checkpoints while Running.
C25_RunMoves ==
    /\ RunRank(RunState') >= RunRank(RunState)
    /\ RunState \in {"Completed", "Aborted"} => RunState' = RunState
    /\ progress_saves' # progress_saves =>
          RunState = "Running" /\ RunState' = "Running"

\* C25: when every awaited call returns or raises and the event loop is
\* fair, every task that waits for a slot gets one (unless the run is
\* interrupted first), every batch that was started finishes, the run moves
\* only along NotStarted -> Running -> (Checkpointing)* -> Completed |
\* Aborted, and it ends Completed or Aborted.
C25_Terminates ==
    /\ \A r \in 1 .. MaxRows :
          (r \in Rows /\ tasks[r].pc = "waiting")
             ~> (main_pc = "interrupted" \/ (r \in Rows /\ tasks[r].pc \in RunningPcs))
    /\ BatchRunning ~> ~BatchRunning
    /\ [][C25_RunMoves]_vars
    /\ <>(RunState \in {"Completed", "Aborted"})

\* A run of three batches has written its checkpoint and completed.
C25_Witness ==
    /\ RunState = "Completed"
    /\ batch_num = CHECKPOINT_EVERY
    /\ progress_saves # <<>>
    /\ final_output.written


(***************************************************************************)
(* Run-level accounting.                                                   *)
(***************************************************************************)
\* The batch loop of main is over.
LoopOver == main_pc = "done" \/ (main_pc = "loop" /\ batch_num = total_batches)

\* C26: once the batch loop of main is over, the four run-level buckets
\* together hold exactly one entry for every input row, whichever batches
\* returned normally and whichever raised, the checkpoint write included.
C26_OneEntryPerRow ==
    LoopOver =>
        /\ OutcomeCount = Len(businesses)
        /\ \A r \in Rows :
              CountRow(all_results \o all_closed \o all_low_priority \o all_failed,
                       r) = 1


(***************************************************************************)
(* Presence results without a cue.                                         *)
(***************************************************************************)
\* The place search shows results.
PlaceFound(place) == ~place.raises /\ place.result_count > 0

\* C27: a business the presence search finds, whose page text has neither a
\* closure phrase nor an active-business cue, gets appears_active = false
\* and is classified closed whatever its website analysis; a record that was
\* searched is classified closed exactly when it was found and its page text
\* has a closure phrase or lacks every active cue.
C27_NoCueIsClosed ==
    \A r \in Rows :
        LET place == world[r].place
        IN  /\ (tasks[r].pc = "quality" /\ PlaceFound(place)
                /\ ~place.is_closed /\ ~place.has_active) =>
                   tasks[r].maps_result.found /\ ~tasks[r].maps_result.appears_active
            /\ (Searched(r) /\ BucketsLive) =>
                  /\ (PlaceFound(place) /\ ~place.is_closed /\ ~place.has_active) =>
                        /\ tasks[r].status = "closed"
                        /\ tasks[r].result.status = "closed"
                  /\ tasks[r].status = "closed" <=>
                        (PlaceFound(place) /\ (place.is_closed \/ ~place.has_active))

\* A business that was found without any cue, with a reachable, well-scoring
\* website, has been bucketed as closed.
C27_Witness ==
    /\ main_pc = "batch_return"
    /\ world[1].place = PlaceNoCue
    /\ world[1].site = SiteGood
    /\ CleanedOf(1) # NoneUrl
    /\ tasks[1].pc = "drained"
    /\ Len(closed) = 1 /\ closed[1].status = "closed"


(***************************************************************************)
(* Buckets and priorities.                                                 *)
(***************************************************************************)
\* C28: for all inputs of determine_qualification, a result with status
\* qualified or high_priority (an entry of the qualified bucket) has priority
\* HIGH, MEDIUM or LOW, never VERY_LOW, and a result with status low_priority
\* (an entry of the low-priority bucket) has a composite score above 7 and
\* priority LOW or VERY_LOW.
C28_BucketPriorities ==
    \A i \in DOMAIN call_rets :
        LET q == call_rets[i]
        IN  call_args.fn = "determine_qualification" =>
              /\ q.status \in {"qualified", "high_priority"} =>
                    /\ Bucket(q.result, q.status) = "results"
                    /\ q.result.priority \in {"HIGH", "MEDIUM", "LOW"}
              /\ q.status = "low_priority" =>
                    /\ Bucket(q.result, q.status) = "low_priority"
                    /\ q.result.overall_score > 70
                    /\ q.result.priority \in {"LOW", "VERY_LOW"}
              /\ Bucket(q.result, q.status) = "results" =>
                    q.status \in {"qualified", "high_priority"}
              /\ Bucket(q.result, q.status) = "low_priority" =>
                    q.status = "low_priority"

\* A site with composite 7.6 (base VERY_LOW) and no critical issue was
\* classified low_priority with priority VERY_LOW.
C28_Witness ==
    /\ call_args.fn = "determine_qualification"
    /\ call_rets # <<>>
    /\ call_args.website_analysis =
          [ accessible |-> TRUE, has_ssl |-> TRUE, mobile_responsive |-> TRUE,
            mobile_score |-> 8, overall_score |-> 76 ]
    /\ call_args.maps_result.found /\ call_args.maps_result.appears_active
    /\ call_rets[1].status = "low_priority"
    /\ call_rets[1].result.priority = "VERY_LOW"


(***************************************************************************)
(* Checkpoints over a run.                                                 *)
(***************************************************************************)
IsPrefix(a, b) == Len(a) <= Len(b) /\ SubSeq(b, 1, Len(a)) = a

\* The row has a batch_failure entry: its batch raised.
BatchFailed(r) ==
    \E i \in DOMAIN all_failed :
        all_failed[i].reason = "batch_failure" /\ all_failed[i].row = r

\* What save_progress was given as the bucket b.
SavedBucket(save, b) ==
    CASE b = "results" -> save.args.results
      [] b = "closed" -> save.args.closed
      [] b = "low_priority" -> save.args.low_priority
      [] OTHER -> <<>>

\* The contents passed to save_progress at a later checkpoint start with the
\* contents passed at every earlier one, and the contents passed at batch k
\* hold the outcome of every record of the batches 1..k that returned
\* normally.
C29_SavesCumulative ==
    /\ \A i, j \in DOMAIN progress_saves :
          i < j =>
            /\ progress_saves[i].batch_num < progress_saves[j].batch_num
            /\ \A b \in {"results", "closed", "low_priority"} :
                  IsPrefix(SavedBucket(progress_saves[i], b),
                           SavedBucket(progress_saves[j], b))
    /\ \A i \in DOMAIN progress_saves :
          \A r \in Rows :
             LET b == Bucket(tasks[r].result, tasks[r].status)
             IN  (BatchOf(r) <= progress_saves[i].batch_num
                  /\ tasks[r].pc = "drained" /\ ~BatchFailed(r)
                  /\ b \in {"results", "closed", "low_priority"}) =>
                     /\ CountRow(SavedBucket(progress_saves[i], b), r) = 1
                     /\ tasks[r].result \in Range(SavedBucket(progress_saves[i], b))

\* The run-level buckets only grow, at their end.
C29_BucketsAppendOnly ==
    /\ IsPrefix(all_results, all_results')
    /\ IsPrefix(all_closed, all_closed')
    /\ IsPrefix(all_low_priority, all_low_priority')
    /\ IsPrefix(all_failed, all_failed')

\* C29: checkpoints are cumulative and monotone: what save_progress is given
\* at batch k contains, in order, what it was given at every earlier
\* checkpoint and the outcomes of every batch 1..k that completed normally,
\* and the run-level buckets only ever grow by appending.
C29_CheckpointsCumulative ==
    [] C29_SavesCumulative /\ [][C29_BucketsAppendOnly]_vars

\* Two checkpoints were taken, and the second was given more qualified and
\* more closed outcomes than the first, which had some of each.
C29_Witness ==
    /\ Len(progress_saves) = 2
    /\ progress_saves[1].args.results # <<>>
    /\ progress_saves[1].args.closed # <<>>
    /\ Len(progress_saves[2].args.results) > Len(progress_saves[1].args.results)
    /\ Len(progress_saves[2].args.closed) > Len(progress_saves[1].args.closed)
    /\ progress_saves[2].args.low_priority # <<>>

=============================================================================
